---- MODULE Spec2Model ----
(***************************************************************************)
(* Model of sktime/forecasting/base/sktime.py: the temporal bookkeeping of *)
(* BaseSktimeForecaster / BaseLastWindowForecaster (observation horizon,   *)
(* cutoff, forecasting horizon), the two horizon mixins, the prediction    *)
(* router, the moving-cutoff loop and the formatting of its predictions.   *)
(*                                                                         *)
(* A pandas Series is a sequence of records [i |-> index, v |-> value], in *)
(* positional (iloc) order.  An attribute that may be None is None or      *)
(* Some(x).  Every method is an operator from the forecaster `self` (a     *)
(* record of its attributes) to a record [self, err, val]: the forecaster  *)
(* afterwards, the exception raised (OK when none) and the value returned. *)
(***************************************************************************)
EXTENDS Integers, Sequences, FiniteSets, TLC

\* ------------------------------------------------------------------ bounds
\* time points of the series passed in are 0..MaxIdx
MaxIdx == 2
\* a horizon passed in holds at most MaxFhLen offsets
MaxFhLen == 2
\* a splitter yields at most MaxWindows windows
MaxWindows == 2
\* window_length of a fitted forecaster is 1..MaxWindowLength
MaxWindowLength == 1

\* ------------------------------------------------------------- pandas/numpy
None == << >>
Some(x) == << x >>

\* np.nan, the missing value; observed values are the other members of Values
NaN == 0
Values == {NaN, 1, 2}
Idx == 0 .. MaxIdx

Min(S) == CHOOSE x \in S : \A z \in S : x <= z
Max(S) == CHOOSE x \in S : \A z \in S : x >= z

RECURSIVE SortSet(_)
SortSet(S) ==
    IF S = {} THEN << >>
    ELSE <<Min(S)>> \o SortSet(S \ {Min(S)})

\* s.index as a set, and s.loc[i] (the first entry labelled i)
IndexSet(s) == {s[n].i : n \in 1 .. Len(s)}
ValueAt(s, i) == s[Min({n \in 1 .. Len(s) : s[n].i = i})].v

\* the Series of a function from time points to values, index ascending
MkSeries(f) ==
    LET idx == SortSet(DOMAIN f)
    IN  [n \in 1 .. Len(idx) |-> [i |-> idx[n], v |-> f[idx[n]]]]

\* every Series check_y lets through: strictly increasing index, maybe empty
AllSeries(I, V) == {MkSeries(f) : f \in UNION {[S -> V] : S \in SUBSET I}}

\* (a merge in which y's entry wins wherever y has the label, missing or not)
combine_first_overrides(y, other) ==
    LET idx == SortSet(IndexSet(y) \cup IndexSet(other))
    IN  [n \in 1 .. Len(idx) |->
            [i |-> idx[n], v |-> IF idx[n] \in IndexSet(y) THEN ValueAt(y, idx[n])
                                 ELSE ValueAt(other, idx[n])]]
\* pandas Series.combine_first: the union of both indexes, ascending; at each
\* label y's value unless y has none there or it is missing, else other's
combine_first(y, other) ==
    LET idx == SortSet(IndexSet(y) \cup IndexSet(other))
        pick(i) ==
            IF i \in IndexSet(y) /\ ValueAt(y, i) # NaN THEN ValueAt(y, i)
            ELSE IF i \in IndexSet(other) THEN ValueAt(other, i)
            ELSE NaN
    IN  [n \in 1 .. Len(idx) |-> [i |-> idx[n], v |-> pick(idx[n])]]

\* ------------------------------------------------------------------- state
VARIABLES
    cls,             \* the class of the forecaster
    policy,          \* the horizon mixin it is built with
    is_fitted,       \* BaseForecaster.is_fitted
    oh,              \* self._oh
    cutoff,          \* self._cutoff
    fh,              \* self._fh
    window_length_,  \* self.window_length_
    sim,             \* the frames of the running _predict_moving_cutoff calls
    call,            \* the call being made on the forecaster, NoCall between calls
    ret              \* what that call raised or returned, once it has ended

vars == <<cls, policy, is_fitted, oh, cutoff, fh, window_length_, sim, call, ret>>

Self ==
    [cls |-> cls, policy |-> policy, is_fitted |-> is_fitted, oh |-> oh,
     cutoff |-> cutoff, fh |-> fh, window_length_ |-> window_length_]

Becomes(self) ==
    /\ cls' = self.cls
    /\ policy' = self.policy
    /\ is_fitted' = self.is_fitted
    /\ oh' = self.oh
    /\ cutoff' = self.cutoff
    /\ fh' = self.fh
    /\ window_length_' = self.window_length_

Is(self) ==
    /\ cls = self.cls
    /\ policy = self.policy
    /\ is_fitted = self.is_fitted
    /\ oh = self.oh
    /\ cutoff = self.cutoff
    /\ fh = self.fh
    /\ window_length_ = self.window_length_

OK == "ok"
Result(self, err, val) == [self |-> self, err |-> err, val |-> val]
\* statement sequencing: an exception raised by r propagates, otherwise Rest(r)
Then(r, Rest(_)) == IF r.err # OK THEN Result(r.self, r.err, None) ELSE Rest(r)

\* ------------------------------------------------- BaseSktimeForecaster
\* __init__: empty observation horizon, no cutoff, no horizon, no window
__init__(c, p) ==
    [cls |-> c, policy |-> p, is_fitted |-> FALSE, oh |-> << >>,
     cutoff |-> None, fh |-> None, window_length_ |-> None]

_set_cutoff(self, c) == [self EXCEPT !.cutoff = c]

_set_oh(self, y) ==
    IF Len(y) > 0
    THEN _set_cutoff([self EXCEPT !.oh = combine_first(y, self.oh)],
                     Some(y[Len(y)].i))
    ELSE self

\* the exceptions, named by the line that raises them
NotImplementedError == "NotImplementedError"
NoHorizonSet == "ValueError: no fh has been set yet"
MissingHorizon == "ValueError: fh must be passed"
HorizonConflict == "ValueError: a different fh has been provided"
OutOfBounds == "ValueError: fh includes time points before observation horizon"
FormatError == "ValueError: y_preds must be a list"
LengthMismatch == "ValueError: length mismatch"
IndexError == "IndexError"
TypeError == "TypeError"
InvalidHorizon == "ValueError: invalid fh"
NotFittedError == "NotFittedError"

\* the property fh: the stored horizon, or an error when none is stored
fh_property(self) ==
    IF self.fh = None THEN Result(self, NoHorizonSet, None)
    ELSE Result(self, OK, self.fh[1])

\* check_fh of sktime.utils.validation.forecasting: a horizon is a non-empty
\* array of distinct integers; it is handed back as it is
check_fh(h) ==
    IF Len(h) >= 1 /\ \A m, n \in 1 .. Len(h) : m # n => h[m] # h[n]
    THEN Result(None, OK, h)
    ELSE Result(None, InvalidHorizon, None)

\* BaseForecaster.check_is_fitted
check_is_fitted(self) == IF self.is_fitted THEN OK ELSE NotFittedError

\* np.sort of an array
\* (a sort that leaves the array as it is)
np_sort_leaves(a) == a
RECURSIVE np_sort(_)
np_sort(a) ==
    IF Len(a) = 0 THEN << >>
    ELSE LET m == Min({a[n] : n \in 1 .. Len(a)})
             at == Min({n \in 1 .. Len(a) : a[n] = m})
         IN  <<m>> \o np_sort(SubSeq(a, 1, at - 1) \o SubSeq(a, at + 1, Len(a)))

_get_absolute_fh(self, h) ==
    LET got == IF h = None THEN fh_property(self) ELSE Result(self, OK, h[1])
    IN  IF got.err # OK THEN Result(self, got.err, None)
        ELSE IF self.cutoff = None THEN Result(self, TypeError, None)
        ELSE LET fh_abs == [n \in 1 .. Len(got.val) |-> self.cutoff[1] + got.val[n]]
             IN  IF \E n \in 1 .. Len(fh_abs) : fh_abs[n] < 0
                 THEN Result(self, OutOfBounds, None)
                 ELSE Result(self, OK, np_sort(fh_abs))

\* ------------------------------------------------------ the horizon mixins
\* (an optional policy that accepts the horizon passed and does not store it)
OptionalForecastingHorizonMixin_set_fh_keeps(self, h) == Result(self, OK, None)
\* (an optional policy that lets an absent horizon through whatever is stored)
OptionalForecastingHorizonMixin_set_fh_lenient(self, h) ==
    IF h = None THEN Result(self, OK, None)
    ELSE Then(Result(self, check_fh(h[1]).err, None), LAMBDA checked :
         Result([self EXCEPT !.fh = h], OK, None))
OptionalForecastingHorizonMixin_set_fh(self, h) ==
    IF h = None
    THEN IF self.is_fitted /\ self.fh = None
         THEN Result(self, MissingHorizon, None)
         ELSE Result(self, OK, None)
    ELSE LET checked == check_fh(h[1])
         IN  IF checked.err # OK THEN Result(self, checked.err, None)
             ELSE Result([self EXCEPT !.fh = Some(checked.val)], OK, None)

\* (a fit-locked policy that takes any horizon passed, as the optional one does)
RequiredForecastingHorizonMixin_set_fh_overwrites(self, h) ==
    OptionalForecastingHorizonMixin_set_fh(self, h)
RequiredForecastingHorizonMixin_set_fh(self, h) ==
    IF h = None
    THEN IF self.is_fitted
         THEN Result(self, OK, None)
         ELSE Result(self, MissingHorizon, None)
    ELSE LET checked == check_fh(h[1])
         IN  IF checked.err # OK THEN Result(self, checked.err, None)
             ELSE IF self.is_fitted
             THEN IF Some(checked.val) # self.fh
                  THEN Result(self, HorizonConflict, None)
                  ELSE Result(self, OK, None)
             ELSE Result([self EXCEPT !.fh = Some(checked.val)], OK, None)

_set_fh(self, h) ==
    IF self.policy = "optional"
    THEN OptionalForecastingHorizonMixin_set_fh(self, h)
    ELSE RequiredForecastingHorizonMixin_set_fh(self, h)

\* (an update that observes the series whether or not a re-fit is asked for)
update_observes_anyway(self, y_new, update_params) ==
    Then(Result(self, check_is_fitted(self), None), LAMBDA fitted :
         Result(_set_oh(self, y_new), OK, None))
update(self, y_new, update_params) ==
    IF update_params THEN Result(self, NotImplementedError, None)
    ELSE Then(Result(self, check_is_fitted(self), None), LAMBDA fitted :
         Result(_set_oh(self, y_new), OK, None))

\* ------------------------------------------------------ pandas, continued
Series(s) == [kind |-> "Series", s |-> s]

\* y.iloc[window]: window holds zero-based positions, a negative one counts
\* from the end, one outside the series raises
iloc(y, window) ==
    IF \E n \in 1 .. Len(window) : window[n] >= Len(y) \/ window[n] < 0 - Len(y)
    THEN Result(None, IndexError, None)
    ELSE Result(None, OK,
                [n \in 1 .. Len(window) |->
                    y[(IF window[n] < 0 THEN window[n] + Len(y) ELSE window[n]) + 1]])

Range(a, b) == [n \in 1 .. (b - a + 1) |-> a + n - 1]

\* pd.concat of a list of Series
RECURSIVE pd_concat(_)
pd_concat(y_preds) ==
    IF Len(y_preds) = 0 THEN << >>
    ELSE y_preds[1].s \o pd_concat(Tail(y_preds))

\* pd.DataFrame(y_preds).T: one column per Series, one row per label of any of
\* them (ascending), a cell missing where the column's Series has no such label
DataFrame_T(y_preds) ==
    LET idx == SortSet(UNION {IndexSet(y_preds[c].s) : c \in 1 .. Len(y_preds)})
    IN  [kind |-> "DataFrame",
         index |-> idx,
         columns |-> [c \in 1 .. Len(y_preds) |-> c],
         cells |-> [r \in 1 .. Len(idx) |-> [c \in 1 .. Len(y_preds) |->
                      IF idx[r] \in IndexSet(y_preds[c].s)
                      THEN ValueAt(y_preds[c].s, idx[r]) ELSE NaN]]]

\* y_pred.iloc[:, 0]
first_column(y_pred) ==
    Series([r \in 1 .. Len(y_pred.index) |->
               [i |-> y_pred.index[r], v |-> y_pred.cells[r][1]]])

\* ----------------------------------------- _format_moving_cutoff_predictions
\* y_preds is [list |-> whether it is a list, items |-> what it holds]
\* (a formatter that concatenates only when every Series has one element)
_format_when_all_single(y_preds, cutoffs) ==
    IF ~y_preds.list THEN Result(None, FormatError, None)
    ELSE IF Len(y_preds.items) = 0 THEN Result(None, IndexError, None)
    ELSE IF \A c \in 1 .. Len(y_preds.items) : Len(y_preds.items[c].s) = 1
    THEN Result(None, OK, Series(pd_concat(y_preds.items)))
    ELSE IF Len(cutoffs) # Len(y_preds.items)
    THEN Result(None, LengthMismatch, None)
    ELSE IF Len(y_preds.items) = 1
    THEN Result(None, OK, first_column(DataFrame_T(y_preds.items)))
    ELSE Result(None, OK, [DataFrame_T(y_preds.items) EXCEPT !.columns = cutoffs])
_format_moving_cutoff_predictions(y_preds, cutoffs) ==
    IF ~y_preds.list THEN Result(None, FormatError, None)
    ELSE IF Len(y_preds.items) = 0 THEN Result(None, IndexError, None)
    ELSE IF Len(y_preds.items[1].s) = 1
    THEN Result(None, OK, Series(pd_concat(y_preds.items)))
    ELSE IF Len(cutoffs) # Len(y_preds.items)
    THEN Result(None, LengthMismatch, None)
    ELSE IF Len(y_preds.items) = 1
    THEN Result(None, OK, first_column(DataFrame_T(y_preds.items)))
    ELSE Result(None, OK, [DataFrame_T(y_preds.items) EXCEPT !.columns = cutoffs])

\* ------------------------------------------------------- window splitters
\* ManualWindowSplitter(cutoffs, fh, window_length).split(y): for each cutoff, a
\* zero-based position in y, in the order given, the window of at most
\* window_length positions that ends at it
ManualWindowSplitter(cutoffs, h, window_length, y) ==
    [fh |-> h,
     windows |-> [n \in 1 .. Len(cutoffs) |->
        IF window_length = None THEN Result(None, TypeError, None)
        ELSE IF cutoffs[n] < 0 \/ cutoffs[n] >= Len(y)
        THEN Result(None, IndexError, None)
        ELSE Result(None, OK,
                    Range(IF cutoffs[n] - window_length[1] + 1 < 0 THEN 0
                          ELSE cutoffs[n] - window_length[1] + 1, cutoffs[n]))]]

\* ------------------------------------------- BaseLastWindowForecaster
\* _predict_last_window, the numeric primitive of the concrete forecaster: one
\* forecast per offset, in the order of the offsets; the forecast made at cutoff
\* c for offset k is the number 100 + 10 (c + 1) + k
Forecast(c, k) == 100 + 10 * (IF c = None THEN 0 ELSE c[1] + 1) + k
_predict_last_window(self, h) ==
    Result(self, OK, [n \in 1 .. Len(h) |-> Forecast(self.cutoff, h[n])])

\* self.oh.loc[start:end]: the entries labelled start..end, both ends included
loc(y, start, end) == SelectSeq(y, LAMBDA e : start <= e.i /\ e.i <= end)
\* s.values
values(s) == [n \in 1 .. Len(s) |-> s[n].v]

\* (a last window taken by position: the window_length_ last observations)
_get_last_window_by_position(self) ==
    IF self.cutoff = None \/ self.window_length_ = None
    THEN Result(self, TypeError, None)
    ELSE Result(self, OK,
                values(SubSeq(self.oh,
                              Max({1, Len(self.oh) - self.window_length_[1] + 1}),
                              Len(self.oh))))
_get_last_window(self) ==
    IF self.cutoff = None \/ self.window_length_ = None
    THEN Result(self, TypeError, None)
    ELSE Result(self, OK,
                values(loc(self.oh, self.cutoff[1] - self.window_length_[1] + 1,
                           self.cutoff[1])))

\* pd.Series(y_pred, index=index): values and labels are paired by position
pd_Series(y_pred, index) ==
    Series([n \in 1 .. Len(index) |-> [i |-> index[n], v |-> y_pred[n]]])

_predict_fixed_cutoff(self, h) ==
    Then(_predict_last_window(self, h), LAMBDA y_pred :
    Then(_get_absolute_fh(self, Some(h)), LAMBDA index :
    Result(self, OK, pd_Series(y_pred.val, index.val))))

RECURSIVE _predict(_, _, _)

\* (a loop body that predicts before it observes the window)
moving_cutoff_body_predicts_first(self, y, new_window, h, update_params, return_pred_int) ==
    Then(Result(self, new_window.err, new_window.val), LAMBDA yielded :
    Then(Result(self, iloc(y, yielded.val).err, iloc(y, yielded.val).val), LAMBDA y_new :
    Then(_predict(self, h, return_pred_int), LAMBDA y_pred :
    Then(update(y_pred.self, y_new.val, update_params), LAMBDA updated :
    Result(updated.self, OK,
           [y_pred |-> y_pred.val, cutoff |-> updated.self.cutoff[1]])))))
\* (a loop body that stores the horizon of the splitter before it predicts)
moving_cutoff_body_stores_horizon(self, y, new_window, h, update_params, return_pred_int) ==
    Then(Result(self, new_window.err, new_window.val), LAMBDA yielded :
    Then(Result(self, iloc(y, yielded.val).err, iloc(y, yielded.val).val), LAMBDA y_new :
    Then(update(self, y_new.val, update_params), LAMBDA updated :
    Then(_predict([updated.self EXCEPT !.fh = Some(h)], h, return_pred_int), LAMBDA y_pred :
    Result(y_pred.self, OK,
           [y_pred |-> y_pred.val, cutoff |-> y_pred.self.cutoff[1]])))))
\* the body of the loop of _predict_moving_cutoff for one window of the splitter
moving_cutoff_body(self, y, new_window, h, update_params, return_pred_int) ==
    Then(Result(self, new_window.err, new_window.val), LAMBDA yielded :
    Then(Result(self, iloc(y, yielded.val).err, iloc(y, yielded.val).val), LAMBDA y_new :
    Then(update(self, y_new.val, update_params), LAMBDA updated :
    Then(_predict(updated.self, h, return_pred_int), LAMBDA y_pred :
    Result(y_pred.self, OK,
           [y_pred |-> y_pred.val, cutoff |-> y_pred.self.cutoff[1]])))))

\* the loop over the windows not yet taken; stops at the first exception
RECURSIVE moving_cutoff_loop(_, _, _, _, _, _, _, _)
moving_cutoff_loop(self, y, windows, h, update_params, return_pred_int, y_preds, cutoffs) ==
    IF Len(windows) = 0
    THEN Result(self, OK, [y_preds |-> y_preds, cutoffs |-> cutoffs])
    ELSE Then(moving_cutoff_body(self, y, Head(windows), h, update_params,
                                 return_pred_int), LAMBDA step :
         moving_cutoff_loop(step.self, y, Tail(windows), h, update_params,
                            return_pred_int,
                            Append(y_preds, step.val.y_pred),
                            Append(cutoffs, step.val.cutoff)))

\* (a context manager that remembers no cutoff on entry)
detached_enter_unset(self) == None
\* _detached_cutoff: what it remembers on entry, and what it does on exit
detached_enter(self) == self.cutoff
\* (a context manager that leaves the cutoff where the block put it)
detached_exit_leaves(self, remembered) == self
detached_exit(self, remembered) == _set_cutoff(self, remembered)

\* (a with block that is no context manager: the cutoff stays where the body
\* put it)
with_cutoff_attached(body, remembered) == body
\* the with block: whatever its body did or raised, the cutoff is set back
with_detached_cutoff(body, remembered) ==
    Result(detached_exit(body.self, remembered), body.err, body.val)

\* a helper's result handed on as the method's own
returning(self, r) == Result(self, r.err, r.val)

\* the first statement inside the with block: self._set_cutoff(y.index[0] - 1)
force_cutoff(self, y) ==
    IF Len(y) = 0 THEN Result(self, IndexError, None)
    ELSE Result(_set_cutoff(self, Some(y[1].i - 1)), OK, None)

\* _predict_moving_cutoff run to its end, cv being [fh, windows]
_predict_moving_cutoff(self, y, cv, update_params, return_pred_int) ==
    IF return_pred_int THEN Result(self, NotImplementedError, None)
    ELSE Then(with_detached_cutoff(
                  Then(force_cutoff(self, y), LAMBDA forced :
                  moving_cutoff_loop(forced.self, y, cv.windows, cv.fh, update_params,
                                     return_pred_int, << >>, << >>)),
                  detached_enter(self)), LAMBDA looped :
         returning(looped.self,
                   _format_moving_cutoff_predictions(
                       [list |-> TRUE, items |-> looped.val.y_preds],
                       looped.val.cutoffs)))

_predict_in_sample(self, h, return_pred_int) ==
    LET y_train == self.oh
        cutoffs == [n \in 1 .. Len(h) |-> h[n] + Len(y_train) - 2]
        cv == ManualWindowSplitter(cutoffs, <<1>>, self.window_length_, y_train)
    IN  _predict_moving_cutoff(self, y_train, cv, FALSE, return_pred_int)

IsOos(k) == k > 0
IsIns(k) == ~(k > 0)

\* BaseLastWindowForecaster._predict past its first statement: the routing of
\* the horizon
routed(self, h, return_pred_int) ==
    LET fh_oos == SelectSeq(h, IsOos)
        fh_ins == SelectSeq(h, IsIns)
    IN  IF \A n \in 1 .. Len(h) : IsOos(h[n])
        THEN _predict_fixed_cutoff(self, fh_oos)
        ELSE IF \A n \in 1 .. Len(h) : IsIns(h[n])
        THEN _predict_in_sample(self, fh_ins, return_pred_int)
        ELSE Then(_predict_in_sample(self, fh_ins, return_pred_int), LAMBDA y_ins :
             Then(_predict_fixed_cutoff(y_ins.self, fh_oos), LAMBDA y_oos :
             Result(y_oos.self, OK, Series(y_ins.val.s \o y_oos.val.s))))

\* (a _predict that goes on to route when prediction intervals are asked for)
_predict_routes_intervals(self, h, return_pred_int) ==
    IF self.cls = "BaseSktimeForecaster" THEN Result(self, NotImplementedError, None)
    ELSE routed(self, h, return_pred_int)
\* BaseSktimeForecaster._predict is abstract; BaseLastWindowForecaster._predict
\* refuses prediction intervals and routes the horizon
_predict(self, h, return_pred_int) ==
    IF self.cls = "BaseSktimeForecaster" THEN Result(self, NotImplementedError, None)
    ELSE IF return_pred_int THEN Result(self, NotImplementedError, None)
    ELSE routed(self, h, return_pred_int)

predict(self, h, return_pred_int) ==
    Then(Result(self, check_is_fitted(self), None), LAMBDA fitted :
    Then(_set_fh(self, h), LAMBDA resolved :
    Then(fh_property(resolved.self), LAMBDA stored :
    _predict(resolved.self, stored.val, return_pred_int))))

\* ---------------------------------------------------------------- actions
\* A call is made when no other is being made; it is atomic but for
\* update_predict, which runs one statement of _predict_moving_cutoff at a time.
\* call holds what was asked, and in `self` the forecaster as it was when the
\* call was made; once the call has ended ret holds what came back, until the
\* caller takes the result (Return).
NoCall == [op |-> "none"]
NoSim == [pc |-> "idle"]
NoRet == [err |-> OK, val |-> None]
Sims == {1, 2}
Idle == \A p \in Sims : sim[p].pc = "idle"
Ready == Idle /\ call = NoCall
Returned(r) == [err |-> r.err, val |-> r.val]
\* the forecaster and the result after the call that gave r
Ends(r) == Becomes(r.self) /\ ret' = Returned(r)

Init ==
    /\ \E c \in {"BaseSktimeForecaster", "BaseLastWindowForecaster"},
          p \in {"optional", "required"} : Is(__init__(c, p))
    /\ sim = [p \in Sims |-> NoSim]
    /\ call = NoCall
    /\ ret = NoRet

\* fit of a concrete forecaster: resolves the horizon, observes the training
\* series, sets the window length and marks the forecaster fitted
fit(self, y, h, w) ==
    Then(_set_fh(self, h), LAMBDA resolved :
    Result([_set_oh(resolved.self, y) EXCEPT
                !.window_length_ = IF self.cls = "BaseLastWindowForecaster"
                                   THEN Some(w) ELSE None,
                !.is_fitted = TRUE],
           OK, None))

Fit(y, h, w) ==
    /\ Ready /\ ~is_fitted /\ Len(y) > 0
    /\ Ends(fit(Self, y, h, w))
    /\ call' = [op |-> "fit", y |-> y, fh |-> h, self |-> Self]
    /\ UNCHANGED sim

Predict(h, return_pred_int) ==
    /\ Ready
    /\ Ends(predict(Self, h, return_pred_int))
    /\ call' = [op |-> "predict", fh |-> h, return_pred_int |-> return_pred_int,
                self |-> Self]
    /\ UNCHANGED sim

Update(y_new, update_params) ==
    /\ Ready
    /\ Ends(update(Self, y_new, update_params))
    /\ call' = [op |-> "update", y |-> y_new, update_params |-> update_params,
                self |-> Self]
    /\ UNCHANGED sim

\* reading the property cutoff
ReadCutoff ==
    /\ Ready
    /\ call' = [op |-> "cutoff", self |-> Self]
    /\ ret' = [err |-> OK, val |-> cutoff]
    /\ UNCHANGED <<cls, policy, is_fitted, oh, cutoff, fh, window_length_, sim>>

\* update_predict up to the entry of the with block of _predict_moving_cutoff;
\* cv is None or Some(the horizon of the splitter passed).  The frame holds the
\* locals of _predict_moving_cutoff and of _detached_cutoff, and in `yielded` how
\* many positions of y the splitter has gone past
update_predict_enter(self, y_test, cv, update_params, return_pred_int) ==
    LET default == fh_property(self)
        early ==
            IF self.cls = "BaseSktimeForecaster" /\ return_pred_int
            THEN NotImplementedError
            ELSE IF self.cls = "BaseSktimeForecaster" /\ Len(y_test) = 0
            THEN "ValueError: y is empty"
            ELSE IF cv = None /\ default.err # OK THEN default.err
            ELSE IF return_pred_int THEN NotImplementedError
            ELSE OK
    IN  IF early # OK THEN Result(self, early, None)
        ELSE Result(self, OK,
                    [pc |-> "detached", y |-> y_test,
                     fh |-> IF cv = None THEN default.val ELSE cv[1],
                     update_params |-> update_params,
                     return_pred_int |-> return_pred_int,
                     remembered |-> detached_enter(self),
                     y_preds |-> << >>, cutoffs |-> << >>, err |-> OK, yielded |-> 0])

Enters(p, r) ==
    /\ Becomes(r.self)
    /\ ret' = [err |-> r.err, val |-> None]
    /\ sim' = [sim EXCEPT ![p] = IF r.err = OK THEN r.val ELSE NoSim]

UpdatePredict(p, y_test, cv, update_params, return_pred_int) ==
    /\ sim[p].pc = "idle"
    /\ Enters(p, update_predict_enter(Self, y_test, cv, update_params, return_pred_int))
    /\ call' = [op |-> "update_predict", y |-> y_test, cv |-> cv,
                update_params |-> update_params, return_pred_int |-> return_pred_int,
                self |-> Self]

Forces(p, r) ==
    /\ Becomes(r.self)
    /\ sim' = [sim EXCEPT ![p].pc = IF r.err = OK THEN "iterating" ELSE "failed",
                          ![p].err = r.err]

\* self._set_cutoff(y.index[0] - 1)
ForceCutoff(p) ==
    /\ sim[p].pc = "detached"
    /\ Forces(p, force_cutoff(Self, sim[p].y))
    /\ UNCHANGED <<call, ret>>

Iterates(p, new_window, r) ==
    /\ Becomes(r.self)
    /\ sim' = IF r.err # OK
              THEN [sim EXCEPT ![p].pc = "failed", ![p].err = r.err]
              ELSE [sim EXCEPT ![p].y_preds = Append(@, r.val.y_pred),
                               ![p].cutoffs = Append(@, r.val.cutoff),
                               ![p].yielded = new_window[Len(new_window)] + 1]

\* one pass of the loop, for the window the splitter yields next
Iterate(p, new_window) ==
    /\ sim[p].pc = "iterating"
    /\ Iterates(p, new_window, moving_cutoff_body(Self, sim[p].y, Result(None, OK, new_window),
                                      sim[p].fh, sim[p].update_params,
                                      sim[p].return_pred_int))
    /\ UNCHANGED <<call, ret>>

\* the end of the with block, by exhaustion of the splitter or by an exception,
\* and the formatting of what the loop collected
Exit(p) ==
    /\ sim[p].pc \in {"iterating", "failed"}
    /\ Becomes(detached_exit(Self, sim[p].remembered))
    /\ ret' = IF sim[p].err # OK THEN [err |-> sim[p].err, val |-> None]
              ELSE Returned(_format_moving_cutoff_predictions(
                                [list |-> TRUE, items |-> sim[p].y_preds],
                                sim[p].cutoffs))
    /\ sim' = [sim EXCEPT ![p] = NoSim]
    /\ UNCHANGED call

\* the caller takes what the call returned or raised
Return ==
    /\ Idle /\ call # NoCall
    /\ call' = NoCall
    /\ ret' = NoRet
    /\ UNCHANGED <<cls, policy, is_fitted, oh, cutoff, fh, window_length_, sim>>

\* ------------------------------------------------------------ the inputs
Offsets == {-1, 0, 1, 2}
Horizons == UNION {[1 .. m -> Offsets] : m \in 1 .. MaxFhLen}
Optional(S) == {None} \cup {Some(x) : x \in S}
\* the windows a splitter may yield next over y: runs of consecutive positions
\* after the positions it has yielded so far (the windows come in index order)
Windows(y, yielded) == {Range(a, b) : a, b \in yielded .. Len(y) - 1} \ {<< >>}

RunSeries == AllSeries(Idx, {1})
RunHorizons == {<<1>>, <<1, 2>>, <<0, 1>>}

Next ==
    \/ \E y \in RunSeries, h \in Optional(RunHorizons), w \in 1 .. MaxWindowLength :
          Fit(y, h, w)
    \/ \E h \in Optional(RunHorizons), return_pred_int \in BOOLEAN :
          Predict(h, return_pred_int)
    \/ \E y \in RunSeries, update_params \in BOOLEAN : Update(y, update_params)
    \/ ReadCutoff
    \/ \E y \in RunSeries, cv \in Optional(RunHorizons),
          update_params \in BOOLEAN, return_pred_int \in BOOLEAN :
          Ready /\ UpdatePredict(1, y, cv, update_params, return_pred_int)
    \/ ForceCutoff(1)
    \/ /\ sim[1].pc = "iterating" /\ Len(sim[1].y_preds) < MaxWindows
       /\ \E w \in Windows(sim[1].y, sim[1].yielded) : Iterate(1, w)
    \/ Exit(1)
    \/ Return

Spec == Init /\ [][Next]_vars

\* _set_oh called on its own with the series y: on the new forecaster, and on
\* one that has observed a single series so far
Observe(y) ==
    /\ IF call = NoCall THEN TRUE ELSE oh = call.y
    /\ Becomes(_set_oh(Self, y))
    /\ call' = [op |-> "_set_oh", y |-> y, self |-> Self]
    /\ ret' = NoRet
    /\ UNCHANGED sim

InitObserve == Init /\ cls = "BaseLastWindowForecaster" /\ policy = "optional"
NextObserve == \E y \in AllSeries(Idx, Values) : Observe(y)

SpecObserve == InitObserve /\ [][NextObserve]_vars

\* _get_absolute_fh called with the horizon h, or with none, on a fitted
\* forecaster
GetAbsoluteFh(h) ==
    /\ Ready /\ is_fitted
    /\ ret' = Returned(_get_absolute_fh(Self, h))
    /\ call' = [op |-> "_get_absolute_fh", fh |-> h, self |-> Self]
    /\ UNCHANGED <<cls, policy, is_fitted, oh, cutoff, fh, window_length_, sim>>

NextAbs ==
    \/ \E y \in RunSeries, h \in Optional(Horizons), w \in 1 .. MaxWindowLength :
          Fit(y, h, w)
    \/ \E h \in Optional(Horizons) : GetAbsoluteFh(h)
    \/ Return

SpecAbs == InitObserve /\ [][NextAbs]_vars

\* _get_last_window and _predict_fixed_cutoff called on their own on a fitted
\* last-window forecaster
GetLastWindow ==
    /\ Ready /\ is_fitted
    /\ ret' = Returned(_get_last_window(Self))
    /\ call' = [op |-> "_get_last_window", self |-> Self]
    /\ UNCHANGED <<cls, policy, is_fitted, oh, cutoff, fh, window_length_, sim>>

PredictFixedCutoff(h) ==
    /\ Ready /\ is_fitted
    /\ Ends(_predict_fixed_cutoff(Self, h))
    /\ call' = [op |-> "_predict_fixed_cutoff", fh |-> h, self |-> Self]
    /\ UNCHANGED sim

\* the series whose observation at time point i is i + 1
LabelledSeries == {MkSeries([i \in S |-> i + 1]) : S \in SUBSET Idx}
WindowLengths == 1 .. MaxWindowLength + 1
\* the horizons of distinct positive offsets, in any order
OosHorizons ==
    {h \in Horizons : \A n \in 1 .. Len(h) :
        IsOos(h[n]) /\ \A k \in 1 .. Len(h) : h[k] = h[n] => k = n}

NextFixed ==
    \/ \E y \in LabelledSeries, w \in WindowLengths : Fit(y, None, w)
    \/ \E y \in LabelledSeries : Update(y, FALSE)
    \/ GetLastWindow
    \/ \E h \in OosHorizons : PredictFixedCutoff(h)
    \/ Return

SpecFixed == InitObserve /\ [][NextFixed]_vars

\* fit, update and predict on the last-window forecaster under the optional
\* policy, for series with missing values and for every horizon of distinct
\* offsets, in any order
ValidHorizons ==
    {h \in Horizons : \A n, k \in 1 .. Len(h) : h[k] = h[n] => k = n}
\* the series without missing values, and those whose first observation, at
\* time point 0, is missing
MissingSeries ==
    RunSeries \cup {MkSeries([i \in S |-> IF i = 0 THEN NaN ELSE 1]) : S \in SUBSET Idx}

NextPredict ==
    \/ \E y \in MissingSeries, w \in 1 .. MaxWindowLength : Fit(y, None, w)
    \/ \E y \in MissingSeries : Update(y, FALSE)
    \/ \E h \in ValidHorizons : Predict(Some(h), FALSE)
    \/ Return

SpecPredict == InitObserve /\ [][NextPredict]_vars

\* two callers of update_predict on one fitted forecaster, each making one call
\* while the other may be inside its own (two threads: nothing in the class
\* holds a lock).  A call runs as the statements of _predict_moving_cutoff do:
\* the entry of the with block, the forcing of the cutoff, the passes of the
\* loop, the exit.  call holds the forecaster as it was before the first of
\* the two calls, who has called so far, and whether a call was made while the
\* other was in progress
Simulate(p, y_test, cv) ==
    /\ is_fitted /\ sim[p].pc = "idle"
    /\ IF call = NoCall THEN TRUE
       ELSE call.op = "simulations" /\ p \notin call.started
    /\ Enters(p, update_predict_enter(Self, y_test, cv, FALSE, FALSE))
    /\ call' = IF call = NoCall
               THEN [op |-> "simulations", self |-> Self, started |-> {p},
                     overlapped |-> FALSE]
               ELSE [call EXCEPT !.started = @ \cup {p},
                                 !.overlapped = @ \/ ~Idle]

\* the series observed at every time point from some time point on
RecentSeries == {MkSeries([i \in a .. MaxIdx |-> 1]) : a \in Idx}

NextSimulations ==
    \/ \E y \in RecentSeries, w \in 1 .. MaxWindowLength : Fit(y, Some(<<1>>), w)
    \/ \E p \in Sims, y \in RecentSeries : Simulate(p, y, None)
    \/ \E p \in Sims : ForceCutoff(p)
    \/ \E p \in Sims :
          /\ sim[p].pc = "iterating" /\ Len(sim[p].y_preds) < MaxWindows
          /\ \E w \in Windows(sim[p].y, sim[p].yielded) : Iterate(p, w)
    \/ \E p \in Sims : Exit(p)
    \/ Return

SpecSimulations == InitObserve /\ [][NextSimulations]_vars

\* _format_moving_cutoff_predictions called on its own, with the arguments
\* that call holds
Pending == [err |-> "pending", val |-> None]
Format ==
    /\ ret = Pending
    /\ ret' = Returned(_format_moving_cutoff_predictions(call.y_preds, call.cutoffs))
    /\ UNCHANGED <<cls, policy, is_fitted, oh, cutoff, fh, window_length_, sim, call>>

\* the predictions of one step: a Series with an ascending index
FormatIdx == 0 .. 2
FormatSeries == {Series(s) : s \in AllSeries(FormatIdx, {1, 2})}
\* the arguments: a list of up to MaxWindows of them, or something that is not
\* a list, and cutoffs, as many or one fewer
InitFormat ==
    /\ Is(__init__("BaseLastWindowForecaster", "optional"))
    /\ sim = [p \in Sims |-> NoSim]
    /\ ret = Pending
    /\ \E n \in 0 .. MaxWindows, list \in BOOLEAN :
       \E items \in [1 .. n -> FormatSeries], m \in {n, n - 1} \cap Nat :
       \E cutoffs \in [1 .. m -> 0 .. 1] :
          call = [op |-> "_format_moving_cutoff_predictions",
                  y_preds |-> [list |-> list, items |-> items],
                  cutoffs |-> cutoffs]
NextFormat == Format

SpecFormat == InitFormat /\ [][NextFormat]_vars

\* ============================================================== properties
\* the call `op` has ended: ret is what it returned or raised
Ended(op) == call.op = op /\ Idle /\ ret # Pending
\* the failures of resolving a horizon
HorizonErrors == {NoHorizonSet, MissingHorizon, HorizonConflict, InvalidHorizon}
\* the index of a series climbs strictly
Ascending(s) == \A n \in 1 .. Len(s) - 1 : s[n].i < s[n + 1].i
IsPrefix(a, b) == Len(a) < Len(b) /\ \A n \in 1 .. Len(a) : a[n] = b[n]

\* C1: whenever a call of update_predict has ended, by its return or by an
\* exception raised before or at any step inside the loop, the cutoff is the one
\* the forecaster had when the call was made; and the exception that ended the
\* loop is the one the caller gets.
C1_CutoffRestored ==
    [][(call'.op = "update_predict" /\ sim'[1].pc = "idle")
         => /\ cutoff' = call'.self.cutoff
            /\ sim[1].pc = "failed" => ret'.err = sim[1].err]_vars

\* an update_predict that asked for a re-fit of the parameters has failed inside
\* the loop, after the cutoff had been moved off the one of the call
C1_FailedInsideLoop ==
    /\ Ended("update_predict") /\ call.self.is_fitted
    /\ call.update_params /\ ~call.return_pred_int
    /\ ret.err = NotImplementedError
    /\ Len(call.y) > 0 /\ call.self.cutoff # Some(call.y[1].i - 1)
    /\ cutoff = call.self.cutoff

\* C2: under the fit-locked policy, on a fitted forecaster that stores the
\* horizon H, predict leaves H stored whatever horizon it is passed; passed H
\* itself or no horizon, resolving succeeds and the prediction is the one for H;
\* passed a horizon that differs from H, it fails with the conflict error.
C2_FitLocked ==
    (Ended("predict") /\ call.self.is_fitted /\ call.self.policy = "required")
        => /\ call.self.fh # None /\ fh = call.self.fh
           /\ call.fh \in {None, call.self.fh}
                => /\ ret.err \notin HorizonErrors
                   /\ ret = Returned(_predict(call.self, call.self.fh[1],
                                              call.return_pred_int))
           /\ call.fh \notin {None, call.self.fh} => ret.err = HorizonConflict

\* predict was passed a strict prefix of the stored horizon and failed with the
\* conflict error
C2_PrefixConflicts ==
    /\ Ended("predict") /\ call.self.is_fitted /\ call.self.policy = "required"
    /\ call.fh # None /\ IsPrefix(call.fh[1], fh[1])
    /\ ret.err = HorizonConflict

\* C3: under the optional policy, on a fitted forecaster, a predict that is
\* passed a horizon resolves it without a horizon failure, whatever was stored
\* before, and the horizon stored afterwards is the one passed; so the stored
\* horizon is always that of the last such predict.
C3_LastWriteWins ==
    (Ended("predict") /\ call.self.is_fitted /\ call.self.policy = "optional"
                      /\ call.fh # None)
        => fh = call.fh /\ ret.err \notin HorizonErrors

\* predict has replaced a stored horizon by a different one
C3_Overwrote ==
    /\ Ended("predict") /\ call.self.is_fitted /\ call.self.policy = "optional"
    /\ call.fh # None /\ call.self.fh # None /\ call.self.fh # call.fh
    /\ fh = call.fh

\* C4 (as the specification states it): after a non-empty series y1 has been
\* observed, observing y2 gives an observation horizon whose index is the union
\* of both, with y2's value at every index of y2 and y1's value at every index
\* only y1 has, and a cutoff that is the largest index of y2; an empty y2 changes
\* neither.
C4_NewValuesWin ==
    (Ended("_set_oh") /\ Len(call.self.oh) > 0)
        => IF Len(call.y) = 0
           THEN oh = call.self.oh /\ cutoff = call.self.cutoff
           ELSE /\ IndexSet(oh) = IndexSet(call.self.oh) \cup IndexSet(call.y)
                /\ \A i \in IndexSet(call.y) : ValueAt(oh, i) = ValueAt(call.y, i)
                /\ \A i \in IndexSet(call.self.oh) \ IndexSet(call.y) :
                      ValueAt(oh, i) = ValueAt(call.self.oh, i)
                /\ cutoff = Some(Max(IndexSet(call.y)))

\* C4 (amended): after a non-empty series y1 has been observed, observing y2
\* gives an observation horizon whose index is the union of both; at an index of
\* y2 it has y2's value, unless that value is missing and y1 has the index too,
\* and then it has y1's value; at an index only y1 has it has y1's value; the
\* cutoff is the largest index of y2; an empty y2 changes neither.
C4_Merged ==
    (Ended("_set_oh") /\ Len(call.self.oh) > 0)
        => IF Len(call.y) = 0
           THEN oh = call.self.oh /\ cutoff = call.self.cutoff
           ELSE /\ IndexSet(oh) = IndexSet(call.self.oh) \cup IndexSet(call.y)
                /\ \A i \in IndexSet(call.y) :
                      ValueAt(oh, i) =
                          IF ValueAt(call.y, i) = NaN /\ i \in IndexSet(call.self.oh)
                          THEN ValueAt(call.self.oh, i)
                          ELSE ValueAt(call.y, i)
                /\ \A i \in IndexSet(call.self.oh) \ IndexSet(call.y) :
                      ValueAt(oh, i) = ValueAt(call.self.oh, i)
                /\ cutoff = Some(Max(IndexSet(call.y)))

\* y2 has been observed after y1, with a missing value at an index where y1 has
\* a value, with an index y1 lacks, and without an index y1 has
C4_MissingOverOld ==
    /\ Ended("_set_oh")
    /\ \E i \in IndexSet(call.y) \cap IndexSet(call.self.oh) :
          ValueAt(call.y, i) = NaN /\ ValueAt(call.self.oh, i) # NaN
                                   /\ ValueAt(oh, i) = ValueAt(call.self.oh, i)
    /\ IndexSet(call.y) \ IndexSet(call.self.oh) # {}
    /\ IndexSet(call.self.oh) \ IndexSet(call.y) # {}

\* C5: whenever a non-empty series has been observed and no simulation is in
\* progress, the cutoff is the last index of the observation horizon.
C5_CutoffIsLastIndex ==
    (Idle /\ Len(oh) > 0) => cutoff = Some(oh[Len(oh)].i)

\* C6: a predict that succeeds gives, for a horizon of positive offsets only,
\* the fixed-cutoff predictions for it; for a horizon of non-positive offsets
\* only, the in-sample predictions for it; and for a mixed horizon the in-sample
\* predictions for its non-positive offsets, in their order, followed by the
\* fixed-cutoff predictions for its positive offsets, in their order, the whole
\* being in ascending absolute time.
C6_RoutedAscending ==
    (Ended("predict") /\ ret.err = OK)
        => /\ SelectSeq(fh[1], IsIns) = << >>
                => ret.val = _predict_fixed_cutoff(Self, fh[1]).val
           /\ SelectSeq(fh[1], IsOos) = << >>
                => ret.val = _predict_in_sample(Self, fh[1], FALSE).val
           /\ (SelectSeq(fh[1], IsIns) # << >> /\ SelectSeq(fh[1], IsOos) # << >>)
                => /\ ret.val.s =
                        _predict_in_sample(Self, SelectSeq(fh[1], IsIns), FALSE).val.s
                        \o _predict_fixed_cutoff(Self, SelectSeq(fh[1], IsOos)).val.s
                   /\ Ascending(ret.val.s)

\* what resolving the horizon raises in the call made: predict resolves the
\* horizon passed and reads the stored one; update_predict of the last-window
\* forecaster reads the stored one when no splitter is passed
Resolving ==
    IF call.op = "predict"
    THEN Then(_set_fh(call.self, call.fh), LAMBDA resolved :
              fh_property(resolved.self)).err
    ELSE IF call.self.cls = "BaseLastWindowForecaster" /\ call.cv = None
    THEN fh_property(call.self).err
    ELSE OK

\* how many elements of the array a are v
Count(a, v) == Cardinality({n \in 1 .. Len(a) : a[n] = v})
\* the horizon a call c is about: the one passed, or the stored one when none is
HorizonOf(c) == (IF c.fh = None THEN c.self.fh ELSE c.fh)[1]
Labels(items) == UNION {IndexSet(items[c].s) : c \in 1 .. Len(items)}

\* C7 (as the specification states it): when every one of the n Series has one
\* element the result is a Series of length n; otherwise it is a table with one
\* column per Series, keyed by the cutoffs, and one row per step predicted, given
\* as a Series if and only if it has one column; and what is not a list, or is a
\* list the rule cannot be applied to, fails with the format error.
C7_AsStated ==
    Ended("_format_moving_cutoff_predictions")
        => IF ~call.y_preds.list \/ Len(call.y_preds.items) = 0
                \/ Len(call.cutoffs) # Len(call.y_preds.items)
           THEN ret.err = FormatError
           ELSE IF \A c \in 1 .. Len(call.y_preds.items) :
                       Len(call.y_preds.items[c].s) = 1
           THEN /\ ret.err = OK /\ ret.val.kind = "Series"
                /\ Len(ret.val.s) = Len(call.y_preds.items)
           ELSE /\ ret.err = OK
                /\ ret.val.kind = "Series" <=> Len(call.y_preds.items) = 1
                /\ ret.val.kind = "DataFrame"
                      => /\ ret.val.columns = call.cutoffs
                         /\ (\A c \in 1 .. Len(call.y_preds.items) :
                                Len(call.y_preds.items[c].s) = Len(call.y_preds.items[1].s))
                              => Len(ret.val.index) = Len(call.y_preds.items[1].s)

\* C7 (amended): what is not a list fails with the format error and an empty
\* list with an index error; when the first Series has one element the result
\* is the Series that chains all of them in order, of length n when each has one
\* element; otherwise, cutoffs that are not as many as the Series fail with a
\* length mismatch, and else the result is a table with one column per Series,
\* keyed by the cutoffs, and one row per label that any of the Series has, a
\* cell missing where its Series lacks the label, given as a Series if and only
\* if it has one column.
C7_Formatted ==
    Ended("_format_moving_cutoff_predictions")
        => IF ~call.y_preds.list THEN ret.err = FormatError
           ELSE IF Len(call.y_preds.items) = 0 THEN ret.err = IndexError
           ELSE IF Len(call.y_preds.items[1].s) = 1
           THEN /\ ret.err = OK /\ ret.val.kind = "Series"
                /\ ret.val.s = pd_concat(call.y_preds.items)
                /\ (\A c \in 1 .. Len(call.y_preds.items) :
                       Len(call.y_preds.items[c].s) = 1)
                     => /\ Len(ret.val.s) = Len(call.y_preds.items)
                        /\ \A c \in 1 .. Len(call.y_preds.items) :
                              ret.val.s[c] = call.y_preds.items[c].s[1]
           ELSE IF Len(call.cutoffs) # Len(call.y_preds.items)
           THEN ret.err = LengthMismatch
           ELSE IF Len(call.y_preds.items) = 1
           THEN ret.err = OK /\ ret.val = call.y_preds.items[1]
           ELSE /\ ret.err = OK /\ ret.val.kind = "DataFrame"
                /\ ret.val.columns = call.cutoffs
                /\ Len(ret.val.index) = Cardinality(Labels(call.y_preds.items))
                /\ \A r \in 1 .. Len(ret.val.index) :
                      /\ ret.val.index[r] \in Labels(call.y_preds.items)
                      /\ \A c \in 1 .. Len(call.y_preds.items) :
                            ret.val.cells[r][c] =
                              IF ret.val.index[r] \in IndexSet(call.y_preds.items[c].s)
                              THEN ValueAt(call.y_preds.items[c].s, ret.val.index[r])
                              ELSE NaN

\* two steps of two predictions each, made at different cutoffs, have been put
\* in a table of three rows
C7_TableOfThreeRows ==
    /\ Ended("_format_moving_cutoff_predictions") /\ ret.err = OK
    /\ Len(call.y_preds.items) = 2
    /\ \A c \in 1 .. 2 : Len(call.y_preds.items[c].s) = 2
    /\ ret.val.kind = "DataFrame" /\ Len(ret.val.index) = 3

\* C8 (as the specification states it): on a fitted forecaster a predict or an
\* update_predict that asks for prediction intervals fails with the
\* not-implemented failure, and no simulation is ever under way for a call that
\* asked for them.
C8_AlwaysNotImplemented ==
    /\ (call.op \in {"predict", "update_predict"} /\ Idle
            /\ call.self.is_fitted /\ call.return_pred_int)
          => ret.err = NotImplementedError
    /\ \A p \in Sims : sim[p].pc # "idle" => ~sim[p].return_pred_int

\* C8 (amended): on a fitted forecaster a predict or an update_predict that asks
\* for prediction intervals never returns a result, and no simulation is ever
\* under way for a call that asked for them; it fails with the failure of
\* resolving the horizon when that fails, and with the not-implemented failure
\* otherwise.
C8_IntervalsFail ==
    /\ (call.op \in {"predict", "update_predict"} /\ Idle
            /\ call.self.is_fitted /\ call.return_pred_int)
          => /\ ret.err # OK /\ ret.val = None
             /\ ret.err = IF Resolving # OK THEN Resolving ELSE NotImplementedError
    /\ \A p \in Sims : sim[p].pc # "idle" => ~sim[p].return_pred_int

\* the last-window forecaster, fitted and with a horizon that resolves, has
\* refused a predict that asked for prediction intervals
C8_Refused ==
    /\ Ended("predict") /\ call.self.is_fitted /\ call.return_pred_int
    /\ cls = "BaseLastWindowForecaster" /\ Resolving = OK
    /\ ret.err = NotImplementedError

\* C9: on a forecaster with a cutoff, _get_absolute_fh of a horizon, in whatever
\* order its offsets are, or of the stored horizon when none is passed, fails
\* with the out-of-bounds error if the cutoff plus some offset is negative, and
\* else returns the cutoff plus each offset, one value per offset, ascending.
C9_ToAbsolute ==
    (Ended("_get_absolute_fh") /\ call.self.cutoff # None
                               /\ (call.fh # None \/ call.self.fh # None))
        => IF \E n \in 1 .. Len(HorizonOf(call)) :
                 call.self.cutoff[1] + HorizonOf(call)[n] < 0
           THEN ret.err = OutOfBounds
           ELSE /\ ret.err = OK
                /\ Len(ret.val) = Len(HorizonOf(call))
                /\ \A n \in 1 .. Len(ret.val) - 1 : ret.val[n] <= ret.val[n + 1]
                /\ \A k \in Offsets :
                      Count(ret.val, call.self.cutoff[1] + k) =
                      Count(HorizonOf(call), k)

\* a horizon passed in descending order has come back ascending
C9_Resorted ==
    /\ Ended("_get_absolute_fh") /\ ret.err = OK
    /\ call.fh # None /\ Len(call.fh[1]) = 2 /\ call.fh[1][1] > call.fh[1][2]
    /\ ret.val[1] < ret.val[2]

\* C10: reading the cutoff of a forecaster whose cutoff is unset fails.
C10_UnsetCutoffRaises ==
    (Ended("cutoff") /\ call.self.cutoff = None) => ret.err # OK

C15_KeyedByOwnTime ==
    (Ended("_predict_fixed_cutoff") /\ ret.err = OK)
        => \A n \in 1 .. Len(call.fh) :
              /\ cutoff[1] + call.fh[n] \in IndexSet(ret.val.s)
              /\ ValueAt(ret.val.s, cutoff[1] + call.fh[n])
                   = _predict_last_window(call.self, call.fh).val[n]

\* C12: an update that asks for a re-fit of the parameters fails with the
\* not-implemented failure and leaves observation horizon, cutoff and horizon as
\* they were; an update_predict that asks for it never records a prediction nor
\* observes anything of the test series, its loop fails with that failure in the
\* first pass, and the call does not return a result.
C12_NoRefit ==
    /\ (Ended("update") /\ call.update_params)
          => /\ ret.err = NotImplementedError
             /\ oh = call.self.oh /\ cutoff = call.self.cutoff /\ fh = call.self.fh
    /\ (call.op = "update_predict" /\ call.update_params)
          => /\ oh = call.self.oh /\ fh = call.self.fh
             /\ Idle => ret.err # OK
             /\ \A p \in Sims : sim[p].pc # "idle"
                  => /\ sim[p].y_preds = << >> /\ sim[p].yielded = 0
                     /\ (sim[p].pc = "failed" /\ Len(sim[p].y) > 0)
                          => sim[p].err = NotImplementedError

\* an update_predict that asked for a re-fit has ended with the not-implemented
\* failure on a fitted forecaster, the test series holding a time point that
\* the observation horizon still lacks
C12_AbortedUnmerged ==
    /\ Ended("update_predict") /\ call.update_params /\ ~call.return_pred_int
    /\ is_fitted /\ ret.err = NotImplementedError
    /\ IndexSet(call.y) \ IndexSet(oh) # {}

\* C13: in a simulation the cutoff is first set to the first index of the test
\* series less one; each pass of the loop then observes its window before it
\* predicts, so that the prediction is the one made from the forecaster as the
\* pass leaves it, and appends one prediction and one cutoff, the cutoff being
\* the last index of the window, where the update has put it; and what goes to
\* the formatter is the two lists in the order of the passes.
C13_Ordering ==
    [][/\ (sim[1].pc = "detached" /\ sim'[1].pc = "iterating")
            => cutoff' = Some(sim[1].y[1].i - 1)
       /\ (sim[1].pc = "iterating" /\ sim'[1].pc = "iterating")
            => /\ sim'[1].cutoffs =
                    Append(sim[1].cutoffs, sim[1].y[sim'[1].yielded].i)
               /\ cutoff' = Some(sim[1].y[sim'[1].yielded].i)
               /\ sim[1].y[sim'[1].yielded].i \in IndexSet(oh')
               /\ sim'[1].y_preds =
                    Append(sim[1].y_preds, _predict(Self', sim[1].fh, FALSE).val)
       /\ (sim[1].pc = "iterating" /\ sim'[1].pc = "idle")
            => ret' = Returned(_format_moving_cutoff_predictions(
                                   [list |-> TRUE, items |-> sim[1].y_preds],
                                   sim[1].cutoffs))]_vars

\* two passes of the loop have recorded two predictions at two cutoffs
C13_TwoPasses ==
    /\ sim[1].pc = "iterating"
    /\ Len(sim[1].y_preds) = 2 /\ Len(sim[1].cutoffs) = 2
    /\ sim[1].cutoffs[1] < sim[1].cutoffs[2] /\ cutoff = Some(sim[1].cutoffs[2])
    /\ sim[1].y_preds[1] # sim[1].y_preds[2]

\* C14: under the optional policy, with no horizon passed: predict on a fitted
\* forecaster that stores a horizon resolves it, predicts for it and leaves it
\* stored; predict on a fitted forecaster that stores none fails with the
\* missing-horizon error; and fit, on the forecaster not yet fitted, succeeds
\* and leaves the horizon unset.
C14_AbsentHorizon ==
    /\ (Ended("predict") /\ call.self.is_fitted /\ call.self.policy = "optional"
                          /\ call.fh = None)
          => /\ fh = call.self.fh
             /\ IF call.self.fh = None THEN ret.err = MissingHorizon
                ELSE /\ ret.err \notin HorizonErrors
                     /\ ret = Returned(_predict(call.self, call.self.fh[1],
                                                call.return_pred_int))
    /\ (Ended("fit") /\ call.self.policy = "optional" /\ call.fh = None)
          => ret.err = OK /\ is_fitted /\ fh = None

\* predict without a horizon has failed on a forecaster fitted without one
C14_Missing ==
    /\ Ended("predict") /\ call.self.is_fitted /\ call.self.policy = "optional"
    /\ call.fh = None /\ fh = None /\ ret.err = MissingHorizon

\* C16: a predict that succeeds keys the prediction for each non-positive
\* offset k of the horizon by the time point cutoff + k (the in-sample
\* predictions are the first of the result, in the order of their offsets).
C16_InSampleKeyed ==
    (Ended("predict") /\ ret.err = OK)
        => \A n \in 1 .. Len(SelectSeq(call.fh[1], IsIns)) :
              ret.val.s[n].i = cutoff[1] + SelectSeq(call.fh[1], IsIns)[n]

\* C17: a predict whose horizon holds an offset k with cutoff + k before the
\* first index of the observation horizon fails with the out-of-bounds error.
C17_BeforeFirstIndex ==
    (Ended("predict") /\ call.self.is_fitted
        /\ \E n \in 1 .. Len(call.fh[1]) : cutoff[1] + call.fh[1][n] < oh[1].i)
        => ret.err = OutOfBounds

\* C19: when predict has ended, with a result or an exception, on a fitted
\* forecaster, the observation horizon and the cutoff are those of before the
\* call, whatever the horizon.
C19_PredictReadOnly ==
    (Ended("predict") /\ call.self.is_fitted)
        => oh = call.self.oh /\ cutoff = call.self.cutoff

\* an in-sample predict has succeeded, on observations with a missing value
C19_InSampleDone ==
    /\ Ended("predict") /\ call.self.is_fitted /\ ret.err = OK
    /\ \A n \in 1 .. Len(call.fh[1]) : IsIns(call.fh[1][n])
    /\ \E n \in 1 .. Len(oh) : oh[n].v = NaN
    /\ oh = call.self.oh /\ cutoff = call.self.cutoff

\* C18: on a fitted forecaster under the required policy no step of predict,
\* update or update_predict changes the stored horizon, whatever horizon the
\* call or its splitter carries.
C18_FitLocked ==
    [][(is_fitted /\ policy = "required") => fh' = fh]_vars

\* an update_predict whose splitter carries another horizon than the stored
\* one has ended with its predictions
C18_OtherSplitterHorizon ==
    /\ is_fitted /\ policy = "required"
    /\ Ended("update_predict") /\ ret.err = OK
    /\ call.cv # None /\ call.cv # fh
    /\ fh = call.self.fh

\* C20: when two update_predict calls on one forecaster have been made one
\* after the other, never one inside the other, the cutoff once no call is in
\* progress is the cutoff that held before the first of them; when their
\* statements interleave, a state is reached (C20_InterleavedLost) in which
\* both have ended and the cutoff is another one.
C20_SerializedRestores ==
    (call.op = "simulations" /\ Idle /\ ~call.overlapped)
        => cutoff = call.self.cutoff

\* both calls have ended, one was made inside the other, and the cutoff is not
\* the one that held before either
C20_InterleavedLost ==
    /\ call.op = "simulations" /\ Idle
    /\ call.started = Sims /\ call.overlapped
    /\ cutoff # call.self.cutoff

====
